---- MODULE Spec2Model ----
(***************************************************************************)
(* Model of the cluster bucketizer (clusterlib.py, driven by               *)
(* clusterfile.py).  Two cluster sets, each a collection of                *)
(* (cluster ID, member ID) associations, are loaded into temporary tables, *)
(* joined on the member ID, and the resulting cluster ID pairs are         *)
(* separated into the six bucket files 0to1, 1to0, 1to1, 1toN, Nto1, NtoN. *)
(*                                                                         *)
(* A cluster ID is a string, modelled as a sequence of character codes     *)
(* (1 = "a", 2 = "b"), so that string concatenation and Python's string    *)
(* comparison are computed as the code computes them.  A member ID is a    *)
(* one-character string, modelled by its character code.                   *)
(*                                                                         *)
(* A behaviour of Spec is one program run, bucketize(file1, file2).  A     *)
(* behaviour of SpecSwap goes on with a second run in a fresh process,     *)
(* bucketize(file2, file1).                                                *)
(***************************************************************************)
EXTENDS Integers, Sequences, FiniteSets, TLC

\* ---------------------------------------------------------------- bounds
MaxAssoc == 3        \* at most this many records in one input file

\* The cluster IDs used in the input files: "a", "b", "ab", "ba".
ClusterIDs == {<<1>>, <<2>>, <<1, 2>>, <<2, 1>>}
\* The member IDs used in the input files: "a", "b".
MemberIDs == {1, 2}
Records == ClusterIDs \X MemberIDs
Suffixes == {"0to1", "1to0", "1to1", "1toN", "Nto1", "NtoN"}

\* The records of the input files of the runs that compare two loading
\* orders and of the runs that follow the loops step by step, and of the input files and the database tables of the calls that
\* take any arguments.
RecordsSmall == {<<<<1>>, 1>>, <<<<2>>, 1>>, <<<<2>>, 2>>, <<<<1, 2>>, 2>>}
RecordsFile == {<<<<1>>, 1>>, <<<<2>>, 1>>, <<<<1>>, 2>>}
RecordsTable == {<<<<1>>, 1>>, <<<<2>>, 1>>}

\* The arguments of bucketize, and the ones clusterfile.py passes.
ArgNames == {"file1", "table1", "cid1", "cmid1",
             "file2", "table2", "cid2", "cmid2", "prefix"}
FileArgs == {"file1", "file2", "prefix"}

VARIABLES
    argc,         \* len(sys.argv) of clusterfile.py; 0 = bucketize is called
                  \* by another script
    args,         \* the arguments of bucketize that are not None
    file1,        \* first input file: [exists, recs, lines]
    file2,        \* second input file: [exists, recs, lines]
    table1,       \* rows of the database table named by table1
    table2,       \* rows of the database table named by table2
    cluster_set1, \* temporary table cluster_set1: [exists, rows]
    cluster_set2, \* temporary table cluster_set2
    set1_table,   \* global set1_table: 0 = None, 1 = "cluster_set1",
                  \* 2 = "cluster_set2", 3 = table1, 4 = table2
    set2_table,   \* global set2_table
    clist1,       \* global clist1
    clist2,       \* global clist2
    out,          \* contents of the bucket files, by suffix
    created,      \* suffixes of the bucket files that exist
    pc,           \* position inside clusterfile.py and bucketize
    loop,         \* local variables of the bucket loop that is running
    ret,          \* return value of bucketize: -1 = not returned
    exit,         \* exit code of clusterfile.py: -1 = not exited
    run,          \* 1 = first run or call, 2 = the one that follows it
    prev          \* bucket files and return value of run 1

input == <<argc, file1, file2, table1, table2>>
tables == <<cluster_set1, cluster_set2, set1_table, set2_table>>
lists == <<clist1, clist2>>
buckets == <<out, created>>
history == <<run, prev>>

vars == <<argc, args, file1, file2, table1, table2, cluster_set1,
          cluster_set2, set1_table, set2_table, clist1, clist2, out, created,
          pc, loop, ret, exit, run, prev>>

\* ---------------------------------------------------------------- strings

\* Python 2 comparison s < t of two str values.
RECURSIVE StrLess(_, _)
StrLess(s, t) ==
    IF t = <<>> THEN FALSE
    ELSE IF s = <<>> THEN TRUE
    ELSE IF s[1] # t[1] THEN s[1] < t[1]
    ELSE StrLess(Tail(s), Tail(t))

\* list.count(x)
Count(list, x) == Cardinality({k \in DOMAIN list : list[k] = x})

\* del list[j]
Del(list, j) == SubSeq(list, 1, j - 1) \o SubSeq(list, j + 1, Len(list))

\* The set of the elements of a sequence.
Ran(seq) == {seq[k] : k \in DOMAIN seq}

\* ---------------------------------------------------------------- SQL
\* A table is the sequence of its rows <<cid, cmid>> in the order they were
\* inserted; a query scans its tables in that order.  "order by" returns the
\* rows in ascending key order and leaves rows with equal keys in scan order.

\* "from s1, s2": every pair of a set 1 row and a set 2 row.
AllPairs(t1, t2) ==
    [k \in 1..(Len(t1) * Len(t2)) |->
        <<t1[((k - 1) \div Len(t2)) + 1], t2[((k - 1) % Len(t2)) + 1]>>]

\* "from <set1_table> s1, <set2_table> s2 where s1.cmid = s2.cmid":
\* the joined rows, each a pair of a set 1 row and a set 2 row
\* (JoinRowsAll: the same without the "where").
JoinRowsAll(t1, t2) == AllPairs(t1, t2)

JoinRows(t1, t2) ==
    LET SameMember(p) == p[1][2] = p[2][2]
    IN  SelectSeq(AllPairs(t1, t2), SameMember)

\* "order by <cluster ID>, <member ID>" on rows <<cid, cmid>>
\* (RowBeforeCid: "order by <cluster ID>" only).
RowBeforeCid(r, s) == StrLess(r[1], s[1])

RowBefore(r, s) == StrLess(r[1], s[1]) \/ (r[1] = s[1] /\ r[2] < s[2])

\* "order by s2.cid, s1.cid" on rows <<cid1, cid2>>.
MapBefore(m, n) == StrLess(m[2], n[2]) \/ (m[2] = n[2] /\ StrLess(m[1], n[1]))

RECURSIVE OrderRows(_)
OrderRows(rows) ==
    IF rows = <<>> THEN <<>>
    ELSE LET k == CHOOSE x \in DOMAIN rows :
                      /\ \A y \in DOMAIN rows : ~RowBefore(rows[y], rows[x])
                      /\ \A y \in 1..(x - 1) : RowBefore(rows[x], rows[y])
         IN  <<rows[k]>> \o OrderRows(Del(rows, k))

RECURSIVE OrderMap(_)
OrderMap(rows) ==
    IF rows = <<>> THEN <<>>
    ELSE LET k == CHOOSE x \in DOMAIN rows :
                      /\ \A y \in DOMAIN rows : ~MapBefore(rows[y], rows[x])
                      /\ \A y \in 1..(x - 1) : MapBefore(rows[x], rows[y])
         IN  <<rows[k]>> \o OrderMap(Del(rows, k))

\* "select distinct": every row once, at its first position.
RECURSIVE Distinct(_)
Distinct(rows) ==
    IF rows = <<>> THEN <<>>
    ELSE LET d == Distinct(SubSeq(rows, 1, Len(rows) - 1))
         IN  IF rows[Len(rows)] \in Ran(d) THEN d
             ELSE Append(d, rows[Len(rows)])

\* "select s1.cid as cid1, s2.cid as cid2" of joined rows.
SelectCids(joined) == [k \in DOMAIN joined |-> <<joined[k][1][1], joined[k][2][1]>>]

\* The query of getLists without its "distinct".
SelectMapAll(t1, t2) == OrderMap(SelectCids(JoinRows(t1, t2)))

\* The query of getLists: "select distinct s1.cid as cid1, s2.cid as cid2
\* from s1, s2 where s1.cmid = s2.cmid order by s2.cid, s1.cid".
SelectMap(t1, t2) == OrderMap(Distinct(SelectCids(JoinRows(t1, t2))))

\* Faulty variants of the query of get0to1: the subquery without its join
\* condition, and a filter on the member ID instead of the cluster ID.
Select0to1NoWhere(t1, t2) ==
    LET NotIn(r) == r[1] \notin {p[2][1] : p \in Ran(AllPairs(t1, t2))}
    IN  OrderRows(SelectSeq(t2, NotIn))

Select0to1ByMember(t1, t2) ==
    LET NotIn(r) == r[2] \notin {o[2] : o \in Ran(t1)}
    IN  OrderRows(SelectSeq(t2, NotIn))

\* The query of get0to1: "select s2.cid, s2.cmid from s2 where s2.cid not in
\* (select s2.cid from s1, s2 where s1.cmid = s2.cmid)
\* order by s2.cid, s2.cmid".
Select0to1(t1, t2) ==
    LET NotIn(r) == r[1] \notin {p[2][1] : p \in Ran(JoinRows(t1, t2))}
    IN  OrderRows(SelectSeq(t2, NotIn))

\* Faulty variant of the query of get1to0: the subquery without its join
\* condition.
Select1to0NoWhere(t1, t2) ==
    LET NotIn(r) == r[1] \notin {p[1][1] : p \in Ran(AllPairs(t1, t2))}
    IN  OrderRows(SelectSeq(t1, NotIn))

\* The query of get1to0: "select s1.cid, s1.cmid from s1 where s1.cid not in
\* (select s1.cid from s1, s2 where s1.cmid = s2.cmid)
\* order by s1.cid, s1.cmid".
Select1to0(t1, t2) ==
    LET NotIn(r) == r[1] \notin {p[1][1] : p \in Ran(JoinRows(t1, t2))}
    IN  OrderRows(SelectSeq(t1, NotIn))

\* ---------------------------------------------------------------- lists
\* The loops over the paired lists clist1/clist2.  Indices are 1-based here,
\* 0-based in the source.  A loop state is [l1, l2, o]: the two lists and the
\* records written to the bucket file so far.

\* sortLists: "if (set1[j]+set2[j] < set1[i]+set2[i])" then exchange the
\* pairs at i and j; j runs over range(i, len), i over range(0, len).
Exchange(list, i, j) == [list EXCEPT ![i] = list[j], ![j] = list[i]]

RECURSIVE SortInner(_, _, _, _)
SortInner(i, j, s1, s2) ==
    IF j > Len(s1) THEN <<s1, s2>>
    ELSE IF StrLess(s1[j] \o s2[j], s1[i] \o s2[i])
         THEN SortInner(i, j + 1, Exchange(s1, i, j), Exchange(s2, i, j))
         ELSE SortInner(i, j + 1, s1, s2)

RECURSIVE SortOuter(_, _, _)
SortOuter(i, s1, s2) ==
    IF i > Len(s1) THEN <<s1, s2>>
    ELSE LET r == SortInner(i, i, s1, s2) IN SortOuter(i + 1, r[1], r[2])

\* sortLists(sortby) applied to clist1 = l1, clist2 = l2; the result is the
\* new <<clist1, clist2>>.
sortLists(sortby, l1, l2) ==
    IF sortby = 1 THEN SortOuter(1, l1, l2)
    ELSE LET r == SortOuter(1, l2, l1) IN <<r[2], r[1]>>

\* "nlist": the values paired with the key c at the positions j >= i.
RECURSIVE NList(_, _, _, _)
NList(keys, vals, j, c) ==
    IF j > Len(keys) THEN <<>>
    ELSE (IF keys[j] = c THEN <<vals[j]>> ELSE <<>>)
         \o NList(keys, vals, j + 1, c)

\* "match": more than one value in nlist and none of them occurs more than
\* once in the list "vals" it comes from (Match3: a faulty variant that asks
\* for more than two values).
Match3(nlist, vals) ==
    /\ Len(nlist) > 2
    /\ \A k \in DOMAIN nlist : ~(Count(vals, nlist[k]) > 1)

Match(nlist, vals) ==
    /\ Len(nlist) > 1
    /\ \A k \in DOMAIN nlist : ~(Count(vals, nlist[k]) > 1)

\* The "advance the counter" loop: the first position >= i whose key
\* differs from c.
RECURSIVE SkipSame(_, _, _)
SkipSame(keys, i, c) ==
    IF i <= Len(keys) /\ keys[i] = c THEN SkipSame(keys, i + 1, c) ELSE i

\* get1to1: "clist1.count(clist1[i]) == 1 and clist2.count(clist2[i]) == 1".
Only1Of1(i, l1, l2) == Count(l1, l1[i]) = 1

Only1(i, l1, l2) == Count(l1, l1[i]) = 1 /\ Count(l2, l2[i]) = 1

RECURSIVE Loop1to1(_, _, _, _)
Loop1to1(i, l1, l2, o) ==
    IF i > Len(l1) THEN [l1 |-> l1, l2 |-> l2, o |-> o]
    ELSE IF Only1(i, l1, l2)
         THEN Loop1to1(i, Del(l1, i), Del(l2, i), Append(o, <<l1[i], l2[i]>>))
         ELSE Loop1to1(i + 1, l1, l2, o)

get1to1(l1, l2) == Loop1to1(1, l1, l2, <<>>)

\* get1toN: the inner "while (j < len(clist1))" loop that writes and deletes
\* every pair at a position >= j whose set 1 cluster is c1.
RECURSIVE Write1toN(_, _, _, _, _)
Write1toN(j, l1, l2, o, c1) ==
    IF j > Len(l1) THEN [l1 |-> l1, l2 |-> l2, o |-> o]
    ELSE IF l1[j] = c1
         THEN Write1toN(j, Del(l1, j), Del(l2, j),
                        Append(o, <<l1[j], l2[j]>>), c1)
         ELSE Write1toN(j + 1, l1, l2, o, c1)

RECURSIVE Loop1toN(_, _, _, _)
Loop1toN(i, l1, l2, o) ==
    IF i > Len(l1) THEN [l1 |-> l1, l2 |-> l2, o |-> o]
    ELSE LET c1 == l1[i]
             nlist == NList(l1, l2, i, c1)
         IN  IF Match(nlist, l2)
             THEN LET w == Write1toN(i, l1, l2, o, c1)
                  IN  Loop1toN(i, w.l1, w.l2, w.o)
             ELSE Loop1toN(SkipSame(l1, i + 1, c1), l1, l2, o)

get1toN(l1, l2) == Loop1toN(1, l1, l2, <<>>)

\* getNto1: the same with the roles of the two lists exchanged.
RECURSIVE WriteNto1(_, _, _, _, _)
WriteNto1(j, l1, l2, o, c2) ==
    IF j > Len(l2) THEN [l1 |-> l1, l2 |-> l2, o |-> o]
    ELSE IF l2[j] = c2
         THEN WriteNto1(j, Del(l1, j), Del(l2, j),
                        Append(o, <<l1[j], l2[j]>>), c2)
         ELSE WriteNto1(j + 1, l1, l2, o, c2)

RECURSIVE LoopNto1(_, _, _, _)
LoopNto1(i, l1, l2, o) ==
    IF i > Len(l2) THEN [l1 |-> l1, l2 |-> l2, o |-> o]
    ELSE LET c2 == l2[i]
             nlist == NList(l2, l1, i, c2)
         IN  IF Match(nlist, l1)
             THEN LET w == WriteNto1(i, l1, l2, o, c2)
                  IN  LoopNto1(i, w.l1, w.l2, w.o)
             ELSE LoopNto1(SkipSame(l2, i + 1, c2), l1, l2, o)

getNto1(l1, l2) == LoopNto1(1, l1, l2, <<>>)

\* getNtoN: "for i in range(0,len(clist1))" write and delete the pair at the
\* head of the lists.  n is the number of iterations left.
RECURSIVE LoopNtoN(_, _, _, _)
LoopNtoN(n, l1, l2, o) ==
    IF n = 0 THEN [l1 |-> l1, l2 |-> l2, o |-> o]
    ELSE LoopNtoN(n - 1, Tail(l1), Tail(l2), Append(o, <<l1[1], l2[1]>>))

getNtoNShort(l1, l2) ==
    LoopNtoN(IF Len(l1) = 0 THEN 0 ELSE Len(l1) - 1, l1, l2, <<>>)

getNtoN(l1, l2) == LoopNtoN(Len(l1), l1, l2, <<>>)

\* ---------------------------------------------------------------- state

\* The records of the set S as the lines of a file, in descending order.
RECURSIVE Lines(_)
Lines(S) ==
    IF S = {} THEN <<>>
    ELSE LET r == CHOOSE x \in S : \A y \in S : ~RowBefore(x, y)
         IN  <<r>> \o Lines(S \ {r})

\* The files that hold the records of the set S, one per line, in any order.
LineOrders(S) ==
    {[exists |-> TRUE, recs |-> S, lines |-> l] :
        l \in {x \in [1..Cardinality(S) -> S] :
                  \A j, k \in DOMAIN x : j # k => x[j] # x[k]}}

NoFile == [exists |-> FALSE, recs |-> {}, lines |-> <<>>]

\* An input file is absent, or holds at most MaxAssoc records of R, no
\* record twice.
FilesOf(R) ==
    {NoFile} \cup
    {[exists |-> TRUE, recs |-> S, lines |-> Lines(S)] :
        S \in {T \in SUBSET R : Cardinality(T) <= MaxAssoc}}

Files == FilesOf(Records)

NoTable == [exists |-> FALSE, rows |-> <<>>]
NoOutput == [s \in Suffixes |-> <<>>]
NoLoop == [i |-> 0, j |-> 0, c |-> <<>>]
NoRun == [out |-> NoOutput, created |-> {}, ret |-> -1]

\* The rows of the table named by set1_table / set2_table.
Table(n) ==
    CASE n = 1 -> cluster_set1.rows
      [] n = 2 -> cluster_set2.rows
      [] n = 3 -> table1
      [] n = 4 -> table2

\* The state of a new database session and of the globals when clusterlib
\* has been imported.
Fresh ==
    /\ cluster_set1 = NoTable
    /\ cluster_set2 = NoTable
    /\ set1_table = 0
    /\ set2_table = 0
    /\ clist1 = <<>>
    /\ clist2 = <<>>
    /\ out = NoOutput
    /\ created = {}
    /\ loop = NoLoop
    /\ ret = -1
    /\ exit = -1
    /\ run = 1
    /\ prev = NoRun

\* clusterfile.py is started with three arguments and any two input files,
\* or with too few arguments.
Init ==
    /\ argc \in {3, 4}
    /\ args = {}
    /\ file1 \in IF argc = 4 THEN Files ELSE {NoFile}
    /\ file2 \in IF argc = 4 THEN Files ELSE {NoFile}
    /\ table1 = <<>>
    /\ table2 = <<>>
    /\ pc = "main"
    /\ Fresh

\* clusterfile.py: the check of len(sys.argv), up to the call of bucketize.
Main ==
    /\ pc = "main"
    /\ IF argc = 4
       THEN /\ args' = FileArgs
            /\ pc' = "validate"
            /\ exit' = exit
       ELSE /\ exit' = 1
            /\ pc' = "exited"
            /\ args' = args
    /\ UNCHANGED <<input, tables, lists, buckets, history, loop, ret>>

\* The seven checks of the arguments of bucketize.
ArgsValid(given) ==
    /\ ~("file1" \notin given /\ "table1" \notin given)
    /\ ~("file1" \in given /\ "table1" \in given)
    /\ ~("table1" \in given /\ ("cid1" \notin given \/ "cmid1" \notin given))
    /\ ~("file2" \notin given /\ "table2" \notin given)
    /\ ~("file2" \in given /\ "table2" \in given)
    /\ ~("table2" \in given /\ ("cid2" \notin given \/ "cmid2" \notin given))
    /\ ~("prefix" \notin given)

\* bucketize: "return 1" when a check of the arguments fails.
Validate ==
    /\ pc = "validate"
    /\ IF ArgsValid(args)
       THEN pc' = "load1" /\ ret' = ret
       ELSE pc' = "done" /\ ret' = 1
    /\ UNCHANGED <<input, args, tables, lists, buckets, history, loop, exit>>

\* loadFileSource(file, tempno): 1 when the file does not exist; "create
\* temporary table cluster_set<tempno>" raises an error when the session
\* has this table; else the lines are inserted in their order and 0.
LoadResult(file, tempno) ==
    IF ~file.exists THEN "missing"
    ELSE IF (IF tempno = 1 THEN cluster_set1 ELSE cluster_set2).exists
         THEN "raised"
         ELSE "loaded"

LoadTable(file, tempno) ==
    /\ cluster_set1' = IF tempno = 1
                       THEN [exists |-> TRUE, rows |-> file.lines]
                       ELSE cluster_set1
    /\ cluster_set2' = IF tempno = 2
                       THEN [exists |-> TRUE, rows |-> file.lines]
                       ELSE cluster_set2

\* bucketize, first cluster set: loadFileSource(file1, 1) or the table
\* table1; then the globals of set 1 are set.
LoadFileSource1 ==
    /\ pc = "load1"
    /\ IF "file1" \in args
       THEN CASE LoadResult(file1, 1) = "missing" ->
                     /\ pc' = "done"
                     /\ ret' = 1
                     /\ UNCHANGED tables
              [] LoadResult(file1, 1) = "raised" ->
                     /\ pc' = "raised"
                     /\ ret' = ret
                     /\ UNCHANGED tables
              [] LoadResult(file1, 1) = "loaded" ->
                     /\ LoadTable(file1, 1)
                     /\ set1_table' = 1
                     /\ pc' = "load2"
                     /\ UNCHANGED <<set2_table, ret>>
       ELSE /\ set1_table' = 3
            /\ pc' = "load2"
            /\ UNCHANGED <<cluster_set1, cluster_set2, set2_table, ret>>
    /\ UNCHANGED <<input, args, lists, buckets, history, loop, exit>>

\* Faulty variant of the second load: the first bucket file is opened
\* before the second input file is looked for.
LoadFileSource2Opened ==
    /\ pc = "load2"
    /\ pc' = "done"
    /\ ret' = 1
    /\ created' = created \cup {"0to1"}
    /\ UNCHANGED <<input, args, tables, lists, out, history, loop, exit>>

\* bucketize, second cluster set: loadFileSource(file2, tempno) or the
\* table table2; tempno is 2 when file1 was loaded, else 1.
LoadFileSource2 ==
    /\ pc = "load2"
    /\ LET tempno == IF "file1" \in args THEN 2 ELSE 1
       IN  IF "file2" \in args
           THEN CASE LoadResult(file2, tempno) = "missing" ->
                         /\ pc' = "done"
                         /\ ret' = 1
                         /\ UNCHANGED tables
                  [] LoadResult(file2, tempno) = "raised" ->
                         /\ pc' = "raised"
                         /\ ret' = ret
                         /\ UNCHANGED tables
                  [] LoadResult(file2, tempno) = "loaded" ->
                         /\ LoadTable(file2, tempno)
                         /\ set2_table' = tempno
                         /\ pc' = "get0to1"
                         /\ UNCHANGED <<set1_table, ret>>
           ELSE /\ set2_table' = 4
                /\ pc' = "get0to1"
                /\ UNCHANGED <<cluster_set1, cluster_set2, set1_table, ret>>
    /\ UNCHANGED <<input, args, lists, buckets, history, loop, exit>>

\* A bucket function creates its file and writes the records o to it.
WriteBucket(suffix, o) ==
    /\ out' = [out EXCEPT ![suffix] = o]
    /\ created' = created \cup {suffix}

Get0to1 ==
    /\ pc = "get0to1"
    /\ WriteBucket("0to1", Select0to1(Table(set1_table), Table(set2_table)))
    /\ pc' = "get1to0"
    /\ UNCHANGED <<input, args, tables, lists, history, loop, ret, exit>>

Get1to0 ==
    /\ pc = "get1to0"
    /\ WriteBucket("1to0", Select1to0(Table(set1_table), Table(set2_table)))
    /\ pc' = "getLists"
    /\ UNCHANGED <<input, args, tables, lists, history, loop, ret, exit>>

\* getLists appends the cluster IDs of the joined pairs to the lists.
GetLists ==
    /\ pc = "getLists"
    /\ LET map == SelectMap(Table(set1_table), Table(set2_table))
       IN  /\ clist1' = clist1 \o [k \in DOMAIN map |-> map[k][1]]
           /\ clist2' = clist2 \o [k \in DOMAIN map |-> map[k][2]]
    /\ pc' = "getNto1"
    /\ UNCHANGED <<input, args, tables, buckets, history, loop, ret, exit>>

GetNto1 ==
    /\ pc = "getNto1"
    /\ LET r == getNto1(clist1, clist2)
       IN  /\ clist1' = r.l1
           /\ clist2' = r.l2
           /\ WriteBucket("Nto1", r.o)
    /\ pc' = "sortLists"
    /\ UNCHANGED <<input, args, tables, history, loop, ret, exit>>

SortLists ==
    /\ pc = "sortLists"
    /\ LET r == sortLists(1, clist1, clist2)
       IN  /\ clist1' = r[1]
           /\ clist2' = r[2]
    /\ pc' = "get1to1"
    /\ UNCHANGED <<input, args, tables, buckets, history, loop, ret, exit>>

Get1to1 ==
    /\ pc = "get1to1"
    /\ LET r == get1to1(clist1, clist2)
       IN  /\ clist1' = r.l1
           /\ clist2' = r.l2
           /\ WriteBucket("1to1", r.o)
    /\ pc' = "get1toN"
    /\ UNCHANGED <<input, args, tables, history, loop, ret, exit>>

Get1toN ==
    /\ pc = "get1toN"
    /\ LET r == get1toN(clist1, clist2)
       IN  /\ clist1' = r.l1
           /\ clist2' = r.l2
           /\ WriteBucket("1toN", r.o)
    /\ pc' = "getNtoN"
    /\ UNCHANGED <<input, args, tables, history, loop, ret, exit>>

\* getNtoN, then "return 0" of bucketize.
GetNtoN ==
    /\ pc = "getNtoN"
    /\ LET r == getNtoN(clist1, clist2)
       IN  /\ clist1' = r.l1
           /\ clist2' = r.l2
           /\ WriteBucket("NtoN", r.o)
    /\ pc' = "done"
    /\ ret' = 0
    /\ UNCHANGED <<input, args, tables, history, loop, exit>>

\* clusterfile.py after the call of bucketize: the value it returned is not
\* looked at, "sys.exit(0)"; an exception that leaves bucketize ends the
\* program with exit code 1.
Exit ==
    /\ pc \in {"done", "raised"}
    /\ argc = 4
    /\ exit' = IF pc = "done" THEN 0 ELSE 1
    /\ pc' = "exited"
    /\ UNCHANGED <<input, args, tables, lists, buckets, history, loop, ret>>

\* A new process and a new database session, started with the input files
\* f1 and f2 and a new bucket prefix after the first run has exited.
NewRun(f1, f2) ==
    /\ pc = "exited"
    /\ run = 1
    /\ prev' = [out |-> out, created |-> created, ret |-> ret]
    /\ run' = 2
    /\ file1' = f1
    /\ file2' = f2
    /\ args' = {}
    /\ cluster_set1' = NoTable
    /\ cluster_set2' = NoTable
    /\ set1_table' = 0
    /\ set2_table' = 0
    /\ clist1' = <<>>
    /\ clist2' = <<>>
    /\ out' = NoOutput
    /\ created' = {}
    /\ pc' = "main"
    /\ ret' = -1
    /\ exit' = -1
    /\ UNCHANGED <<argc, table1, table2, loop>>

\* The program is run again with the two input files exchanged.
SwappedRun == NewRun(file2, file1)

\* The program is run again on files that hold the same records, their
\* lines in any order.
ReorderedRun ==
    \E f1 \in IF file1.exists THEN LineOrders(file1.recs) ELSE {file1},
       f2 \in IF file2.exists THEN LineOrders(file2.recs) ELSE {file2} :
        NewRun(f1, f2)

\* A script calls bucketize a second time in the same process and the same
\* database session, with the arguments of its first call and a new bucket
\* prefix.
SecondCall ==
    /\ pc = "done"
    /\ argc = 0
    /\ run = 1
    /\ prev' = [out |-> out, created |-> created, ret |-> ret]
    /\ run' = 2
    /\ out' = NoOutput
    /\ created' = {}
    /\ pc' = "validate"
    /\ ret' = -1
    /\ UNCHANGED <<input, args, tables, lists, loop, exit>>

\* The steps of one call of bucketize.
Bucketize ==
    \/ Validate
    \/ LoadFileSource1
    \/ LoadFileSource2
    \/ Get0to1
    \/ Get1to0
    \/ GetLists
    \/ GetNto1
    \/ SortLists
    \/ Get1to1
    \/ Get1toN
    \/ GetNtoN

\* One run of clusterfile.py.
Next ==
    \/ Main
    \/ Bucketize
    \/ Exit

Spec == Init /\ [][Next]_vars

\* One run followed by the run with the input files exchanged.
NextSwap ==
    \/ Next
    \/ SwappedRun

SpecSwap == Init /\ [][NextSwap]_vars

\* clusterfile.py is started with two input files of few records.
InitOrder ==
    /\ argc = 4
    /\ args = {}
    /\ file1 \in FilesOf(RecordsSmall)
    /\ file2 \in FilesOf(RecordsSmall)
    /\ table1 = <<>>
    /\ table2 = <<>>
    /\ pc = "main"
    /\ Fresh

\* One run followed by a run on the same records in another line order.
NextOrder ==
    \/ Next
    \/ ReorderedRun

SpecOrder == InitOrder /\ [][NextOrder]_vars

\* A script calls bucketize with any combination of arguments; an argument
\* that is given names a file that may exist or a table with any rows.
InitLib ==
    /\ argc = 0
    /\ args \in SUBSET ArgNames
    /\ file1 \in IF "file1" \in args THEN FilesOf(RecordsFile) ELSE {NoFile}
    /\ file2 \in IF "file2" \in args THEN FilesOf(RecordsFile) ELSE {NoFile}
    /\ table1 \in IF "table1" \in args
                  THEN {Lines(S) : S \in SUBSET RecordsTable}
                  ELSE {<<>>}
    /\ table2 \in IF "table2" \in args
                  THEN {Lines(S) : S \in SUBSET RecordsTable}
                  ELSE {<<>>}
    /\ pc = "validate"
    /\ Fresh

\* One call of bucketize followed by a second call in the same session.
NextLib ==
    \/ Bucketize
    \/ SecondCall

SpecLib == InitLib /\ [][NextLib]_vars

\* ---------------------------------------------------------------- steps
\* The bucket loops one iteration at a time.  loop.i and loop.j are the
\* indices i and j of the source plus 1, loop.c the saved cluster ID c1 or
\* c2; in getNtoN loop.j is the length of range(0,len(clist1)).

\* A bucket function opens its file and sets i.
Open(suffix, head) ==
    /\ out' = [out EXCEPT ![suffix] = <<>>]
    /\ created' = created \cup {suffix}
    /\ loop' = [i |-> 1, j |-> 0, c |-> <<>>]
    /\ pc' = head

\* The pair at position j is written to the bucket file and deleted.
WriteDelete(suffix, j) ==
    /\ out' = [out EXCEPT ![suffix] = Append(@, <<clist1[j], clist2[j]>>)]
    /\ clist1' = Del(clist1, j)
    /\ clist2' = Del(clist2, j)

GetNto1Open ==
    /\ pc = "getNto1"
    /\ Open("Nto1", "getNto1.while")
    /\ UNCHANGED <<input, args, tables, lists, history, ret, exit>>

\* One test of "while (i < len(clist2))": nlist and match, up to "j = i" or
\* "i = i + 1"; when the loop has ended, "return 0".
GetNto1While ==
    /\ pc = "getNto1.while"
    /\ IF loop.i > Len(clist2)
       THEN pc' = "sortLists" /\ loop' = NoLoop
       ELSE LET c2 == clist2[loop.i]
            IN  IF Match(NList(clist2, clist1, loop.i, c2), clist1)
                THEN /\ loop' = [i |-> loop.i, j |-> loop.i, c |-> c2]
                     /\ pc' = "getNto1.write"
                ELSE /\ loop' = [i |-> loop.i + 1, j |-> loop.j, c |-> c2]
                     /\ pc' = "getNto1.skip"
    /\ UNCHANGED <<input, args, tables, lists, buckets, history, ret, exit>>

\* One test of "while (j < len(clist2))" and its body.
GetNto1Write ==
    /\ pc = "getNto1.write"
    /\ IF loop.j > Len(clist2)
       THEN pc' = "getNto1.while" /\ UNCHANGED <<lists, out, loop>>
       ELSE IF clist2[loop.j] = loop.c
            THEN WriteDelete("Nto1", loop.j) /\ UNCHANGED <<pc, loop>>
            ELSE /\ loop' = [loop EXCEPT !.j = @ + 1]
                 /\ UNCHANGED <<pc, lists, out>>
    /\ UNCHANGED <<input, args, tables, created, history, ret, exit>>

\* One test of the "while (i < len(clist2))" that advances the counter.
GetNto1Skip ==
    /\ pc = "getNto1.skip"
    /\ IF loop.i <= Len(clist2) /\ clist2[loop.i] = loop.c
       THEN loop' = [loop EXCEPT !.i = @ + 1] /\ pc' = pc
       ELSE loop' = loop /\ pc' = "getNto1.while"
    /\ UNCHANGED <<input, args, tables, lists, buckets, history, ret, exit>>

\* sortLists(1) sets i and j of its two "for" loops.
SortListsOpen ==
    /\ pc = "sortLists"
    /\ loop' = [i |-> 1, j |-> 1, c |-> <<>>]
    /\ pc' = "sortLists.for"
    /\ UNCHANGED <<input, args, tables, lists, buckets, history, ret, exit>>

\* One iteration of the inner "for" of sortLists(1), or the step of the
\* outer "for" to its next i, or "return 0" after the last i.
SortListsFor ==
    /\ pc = "sortLists.for"
    /\ IF loop.i > Len(clist1)
       THEN pc' = "get1to1" /\ loop' = NoLoop /\ UNCHANGED lists
       ELSE IF loop.j > Len(clist1)
            THEN /\ loop' = [loop EXCEPT !.i = @ + 1, !.j = loop.i + 1]
                 /\ UNCHANGED <<pc, lists>>
            ELSE /\ IF StrLess(clist1[loop.j] \o clist2[loop.j],
                               clist1[loop.i] \o clist2[loop.i])
                    THEN /\ clist1' = Exchange(clist1, loop.i, loop.j)
                         /\ clist2' = Exchange(clist2, loop.i, loop.j)
                    ELSE UNCHANGED lists
                 /\ loop' = [loop EXCEPT !.j = @ + 1]
                 /\ pc' = pc
    /\ UNCHANGED <<input, args, tables, buckets, history, ret, exit>>

Get1to1Open ==
    /\ pc = "get1to1"
    /\ Open("1to1", "get1to1.while")
    /\ UNCHANGED <<input, args, tables, lists, history, ret, exit>>

\* Faulty variant of the loop of get1to1: without "i = i + 1".
Get1to1WhileStuck ==
    /\ pc = "get1to1.while"
    /\ IF loop.i > Len(clist1)
       THEN pc' = "get1toN" /\ loop' = NoLoop /\ UNCHANGED <<lists, out>>
       ELSE IF Only1(loop.i, clist1, clist2)
            THEN WriteDelete("1to1", loop.i) /\ UNCHANGED <<pc, loop>>
            ELSE UNCHANGED <<pc, loop, lists, out>>
    /\ UNCHANGED <<input, args, tables, created, history, ret, exit>>

\* One test of "while (i < len(clist1))" of get1to1 and its body.
Get1to1While ==
    /\ pc = "get1to1.while"
    /\ IF loop.i > Len(clist1)
       THEN pc' = "get1toN" /\ loop' = NoLoop /\ UNCHANGED <<lists, out>>
       ELSE IF Only1(loop.i, clist1, clist2)
            THEN WriteDelete("1to1", loop.i) /\ UNCHANGED <<pc, loop>>
            ELSE /\ loop' = [loop EXCEPT !.i = @ + 1]
                 /\ UNCHANGED <<pc, lists, out>>
    /\ UNCHANGED <<input, args, tables, created, history, ret, exit>>

Get1toNOpen ==
    /\ pc = "get1toN"
    /\ Open("1toN", "get1toN.while")
    /\ UNCHANGED <<input, args, tables, lists, history, ret, exit>>

Get1toNWhile ==
    /\ pc = "get1toN.while"
    /\ IF loop.i > Len(clist1)
       THEN pc' = "getNtoN" /\ loop' = NoLoop
       ELSE LET c1 == clist1[loop.i]
            IN  IF Match(NList(clist1, clist2, loop.i, c1), clist2)
                THEN /\ loop' = [i |-> loop.i, j |-> loop.i, c |-> c1]
                     /\ pc' = "get1toN.write"
                ELSE /\ loop' = [i |-> loop.i + 1, j |-> loop.j, c |-> c1]
                     /\ pc' = "get1toN.skip"
    /\ UNCHANGED <<input, args, tables, lists, buckets, history, ret, exit>>

Get1toNWrite ==
    /\ pc = "get1toN.write"
    /\ IF loop.j > Len(clist1)
       THEN pc' = "get1toN.while" /\ UNCHANGED <<lists, out, loop>>
       ELSE IF clist1[loop.j] = loop.c
            THEN WriteDelete("1toN", loop.j) /\ UNCHANGED <<pc, loop>>
            ELSE /\ loop' = [loop EXCEPT !.j = @ + 1]
                 /\ UNCHANGED <<pc, lists, out>>
    /\ UNCHANGED <<input, args, tables, created, history, ret, exit>>

Get1toNSkip ==
    /\ pc = "get1toN.skip"
    /\ IF loop.i <= Len(clist1) /\ clist1[loop.i] = loop.c
       THEN loop' = [loop EXCEPT !.i = @ + 1] /\ pc' = pc
       ELSE loop' = loop /\ pc' = "get1toN.while"
    /\ UNCHANGED <<input, args, tables, lists, buckets, history, ret, exit>>

\* getNtoN opens its file and evaluates range(0,len(clist1)).
GetNtoNOpen ==
    /\ pc = "getNtoN"
    /\ out' = [out EXCEPT !["NtoN"] = <<>>]
    /\ created' = created \cup {"NtoN"}
    /\ loop' = [i |-> 1, j |-> Len(clist1), c |-> <<>>]
    /\ pc' = "getNtoN.for"
    /\ UNCHANGED <<input, args, tables, lists, history, ret, exit>>

\* One iteration of the "for" of getNtoN; after the last, "return 0" of
\* getNtoN and of bucketize.
GetNtoNFor ==
    /\ pc = "getNtoN.for"
    /\ IF loop.i > loop.j
       THEN /\ pc' = "done"
            /\ ret' = 0
            /\ loop' = NoLoop
            /\ UNCHANGED <<lists, out>>
       ELSE /\ WriteDelete("NtoN", 1)
            /\ loop' = [loop EXCEPT !.i = @ + 1]
            /\ UNCHANGED <<pc, ret>>
    /\ UNCHANGED <<input, args, tables, created, history, exit>>

\* The loops of getNto1, sortLists, get1to1, get1toN and getNtoN, one
\* iteration at a time.
LoopSteps ==
    \/ GetNto1Open
    \/ GetNto1While
    \/ GetNto1Write
    \/ GetNto1Skip
    \/ SortListsOpen
    \/ SortListsFor
    \/ Get1to1Open
    \/ Get1to1While
    \/ Get1toNOpen
    \/ Get1toNWhile
    \/ Get1toNWrite
    \/ Get1toNSkip
    \/ GetNtoNOpen
    \/ GetNtoNFor

\* One run of clusterfile.py with the loops one iteration at a time.
NextSteps ==
    \/ Main
    \/ Validate
    \/ LoadFileSource1
    \/ LoadFileSource2
    \/ Get0to1
    \/ Get1to0
    \/ GetLists
    \/ LoopSteps
    \/ Exit

\* The interpreter keeps executing the loops: an iteration that can be taken
\* is taken.
SpecSteps == InitOrder /\ [][NextSteps]_vars /\ WF_vars(LoopSteps)

\* ---------------------------------------------------------------- graph
\* The bipartite graph of the current run's input: set 1 is file1, set 2 is
\* file2.

\* Number of records equal to e in the four joint bucket files together.
Written(e) ==
    Count(out["1to1"], e) + Count(out["1toN"], e)
    + Count(out["Nto1"], e) + Count(out["NtoN"], e)

\* Members shared by set 1 cluster c1 and set 2 cluster c2.
Shared(c1, c2) ==
    {m \in MemberIDs : <<c1, m>> \in file1.recs /\ <<c2, m>> \in file2.recs}

JointEdges == {e \in ClusterIDs \X ClusterIDs : Shared(e[1], e[2]) # {}}

RECURSIVE Reach(_, _)
Reach(S, E) ==
    LET N == {f \in E : \E e \in S : e[1] = f[1] \/ e[2] = f[2]}
    IN  IF N \subseteq S THEN S ELSE Reach(S \cup N, E)

\* The connected component of the edge e in the graph with the edges E, and
\* the clusters of each set in a component C.
Component(e, E) == Reach({e}, E)
Nodes1(C) == {f[1] : f \in C}
Nodes2(C) == {f[2] : f \in C}

\* The edges of E whose component has exactly one set 1 cluster (one1 TRUE)
\* or several (one1 FALSE), and one or several set 2 clusters (one2).
EdgesOfShape(E, one1, one2) ==
    {e \in E : LET C == Component(e, E)
               IN  /\ (Cardinality(Nodes1(C)) = 1) = one1
                   /\ (Cardinality(Nodes2(C)) = 1) = one2}

Returned0 == pc = "done" /\ ret = 0

\* ---------------------------------------------------------------- claims

\* C1: when bucketize has returned 0, every joint edge of the input is a
\* record of the four joint bucket files exactly once in total (not omitted,
\* not written twice, not in two buckets), and these files hold nothing else.
C1_EdgeWrittenOnce ==
    Returned0 =>
        /\ \A e \in JointEdges : Written(e) = 1
        /\ \A s \in {"1to1", "1toN", "Nto1", "NtoN"} :
               Ran(out[s]) \subseteq JointEdges

\* A run that has filled two different joint buckets.
C1_Witness ==
    /\ Returned0
    /\ out["1to1"] # <<>>
    /\ out["NtoN"] # <<>>

\* The buckets whose records name the set 1 cluster c (first field) and the
\* set 2 cluster c (first field of 0to1, second field of a joint bucket).
BucketsOf1(c) ==
    {s \in {"1to0", "1to1", "1toN", "Nto1", "NtoN"} :
        \E r \in Ran(out[s]) : r[1] = c}

BucketsOf2(c) ==
    {s \in {"0to1"} : \E r \in Ran(out[s]) : r[1] = c} \cup
    {s \in {"1to1", "1toN", "Nto1", "NtoN"} : \E r \in Ran(out[s]) : r[2] = c}

\* C2: when bucketize has returned 0, every set 1 cluster ID of the input is
\* in the records of exactly one of 1to0, 1to1, 1toN, Nto1, NtoN and every
\* set 2 cluster ID in the records of exactly one of 0to1, 1to1, 1toN, Nto1,
\* NtoN.
C2_ClusterInOneBucket ==
    Returned0 =>
        /\ \A r \in file1.recs : Cardinality(BucketsOf1(r[1])) = 1
        /\ \A r \in file2.recs : Cardinality(BucketsOf2(r[1])) = 1

\* C3: when bucketize has returned 0, the 1toN bucket holds exactly the joint
\* edges of the components with one set 1 cluster and several set 2 clusters.
C3_1toNExact ==
    Returned0 =>
        Ran(out["1toN"]) = EdgesOfShape(JointEdges, TRUE, FALSE)

\* C4: when bucketize has returned 0, every joint edge of a component with
\* several set 1 clusters and several set 2 clusters is in the NtoN bucket.
C4_NtoNComplete ==
    Returned0 =>
        EdgesOfShape(JointEdges, FALSE, FALSE) \subseteq Ran(out["NtoN"])

\* C5: when getNto1 has returned, and when bucketize has returned 0, the Nto1
\* bucket holds exactly the joint edges of the components with one set 2
\* cluster and several set 1 clusters, however many members an edge shares.
C5_Nto1Exact ==
    (pc = "sortLists" \/ Returned0) =>
        Ran(out["Nto1"]) = EdgesOfShape(JointEdges, FALSE, TRUE)

\* An N:1 edge that shares two members has been written to Nto1.
C5_Witness ==
    /\ pc = "sortLists"
    /\ \E e \in Ran(out["Nto1"]) : Cardinality(Shared(e[1], e[2])) > 1

\* C6: when get1to1 has returned, and when bucketize has returned 0, the 1to1
\* bucket holds exactly the joint edges whose component is that one set 1
\* cluster and that one set 2 cluster.
C6_1to1Exact ==
    (pc = "get1toN" \/ Returned0) =>
        Ran(out["1to1"]) = EdgesOfShape(JointEdges, TRUE, TRUE)

\* get1to1 has written an edge after getNto1 removed N:1 edges.
C6_Witness ==
    /\ pc = "get1toN"
    /\ out["1to1"] # <<>>
    /\ out["Nto1"] # <<>>

\* The clusters of each set that share at least one member with the other.
Overlap1 == {e[1] : e \in JointEdges}
Overlap2 == {e[2] : e \in JointEdges}

\* C7: when get0to1 has returned, and when bucketize has returned 0, the
\* 0to1 bucket holds all associations of the set 2 clusters that share no
\* member with set 1 and no association of any other set 2 cluster; the 1to0
\* bucket likewise for set 1, when get1to0 has returned.
C7_DisjointAllOrNothing ==
    /\ (pc = "get1to0" \/ Returned0) =>
           Ran(out["0to1"]) = {r \in file2.recs : r[1] \notin Overlap2}
    /\ (pc = "getLists" \/ Returned0) =>
           Ran(out["1to0"]) = {r \in file1.recs : r[1] \notin Overlap1}

\* Both files are written, 0to1 is not empty, and a set 2 cluster that shares
\* a member with set 1 also has a member that set 1 does not have.
C7_Witness ==
    /\ pc = "getLists"
    /\ out["0to1"] # <<>>
    /\ \E r \in file2.recs :
           r[1] \in Overlap2 /\ \A a \in file1.recs : a[2] # r[2]

\* C8 as stated: the 0to1 bucket written by get0to1 contains every
\* association (cid2, mid) of set 2 whose member mid is in no association of
\* set 1.
C8_ByMember ==
    (pc = "get1to0" \/ Returned0) =>
        \A r \in file2.recs :
            (\A a \in file1.recs : a[2] # r[2]) => r \in Ran(out["0to1"])

\* C8 amended: the 0to1 bucket written by get0to1 contains every association
\* (cid2, mid) of set 2 whose cluster cid2 has no member that is in an
\* association of set 1.
C8_ByCluster ==
    (pc = "get1to0" \/ Returned0) =>
        \A r \in file2.recs :
            (\A b \in file2.recs, a \in file1.recs :
                 b[1] = r[1] => a[2] # b[2])
                => r \in Ran(out["0to1"])

\* 0to1 holds a record although set 1 is not empty.
C8_Witness ==
    /\ pc = "get1to0"
    /\ file1.recs # {}
    /\ out["0to1"] # <<>>

\* C9: right after getLists the pairs (clist1[i], clist2[i]) are pairwise
\* distinct and their set is the join of the two sets on the member ID,
\* projected to the cluster IDs.
C9_ListsAreJoin ==
    pc = "getNto1" =>
        /\ Len(clist1) = Len(clist2)
        /\ \A i, j \in DOMAIN clist1 :
               (clist1[i] = clist1[j] /\ clist2[i] = clist2[j]) => i = j
        /\ {<<clist1[i], clist2[i]>> : i \in DOMAIN clist1} = JointEdges

\* getLists has listed several pairs, one of them sharing two members.
C9_Witness ==
    /\ pc = "getNto1"
    /\ Len(clist1) > 1
    /\ \E i \in DOMAIN clist1 : Cardinality(Shared(clist1[i], clist2[i])) > 1

Swap(S) == {<<r[2], r[1]>> : r \in S}

\* C10: the swapped run bucketize(file2, file1) leaves the buckets of the run
\* bucketize(file1, file2) with the categories and the fields exchanged.
C10_Symmetry ==
    (run = 2 /\ Returned0 /\ prev.ret = 0) =>
        /\ Ran(out["1to0"]) = Ran(prev.out["0to1"])
        /\ Ran(out["0to1"]) = Ran(prev.out["1to0"])
        /\ Ran(out["Nto1"]) = Swap(Ran(prev.out["1toN"]))
        /\ Ran(out["1toN"]) = Swap(Ran(prev.out["Nto1"]))
        /\ Ran(out["1to1"]) = Swap(Ran(prev.out["1to1"]))
        /\ Ran(out["NtoN"]) = Swap(Ran(prev.out["NtoN"]))

\* C11: when bucketize has returned 0 for two sets that share no member ID,
\* every association of set 1 is in 1to0, every association of set 2 is in
\* 0to1, and the four joint buckets are empty.
C11_DisjointInput ==
    (Returned0 /\ \A a \in file1.recs, b \in file2.recs : a[2] # b[2]) =>
        /\ file1.recs \subseteq Ran(out["1to0"])
        /\ file2.recs \subseteq Ran(out["0to1"])
        /\ \A s \in {"1to1", "1toN", "Nto1", "NtoN"} : out[s] = <<>>

\* A run has returned 0 for two sets, neither empty, that share no member.
C11_Witness ==
    /\ Returned0
    /\ file1.recs # {}
    /\ file2.recs # {}
    /\ \A a \in file1.recs, b \in file2.recs : a[2] # b[2]

\* Ascending (cid1, cid2) order of two joint bucket records.
EdgeBefore(e, f) == StrLess(e[1], f[1]) \/ (e[1] = f[1] /\ StrLess(e[2], f[2]))

\* C12: when bucketize has returned 0, the consecutive records of each of
\* the four joint buckets are in ascending (cid1, cid2) order.
C12_JointBucketsAscending ==
    Returned0 =>
        \A s \in {"1to1", "1toN", "Nto1", "NtoN"} :
            \A k \in 1..(Len(out[s]) - 1) : EdgeBefore(out[s][k], out[s][k + 1])

\* C17: when sortLists(1) has returned, clist1 is in non-decreasing order.
C17_SortedByFirstList ==
    pc = "get1to1" =>
        \A k \in 1..(Len(clist1) - 1) : ~StrLess(clist1[k + 1], clist1[k])

\* C19: when getNtoN starts, every pair left in clist1/clist2 is an edge of
\* a component with several set 1 clusters and several set 2 clusters; when
\* bucketize has returned 0, both lists are empty.
C19_Elimination ==
    /\ pc = "getNtoN" =>
           /\ Len(clist1) = Len(clist2)
           /\ {<<clist1[k], clist2[k]>> : k \in DOMAIN clist1}
                  \subseteq EdgesOfShape(JointEdges, FALSE, FALSE)
    /\ Returned0 => (clist1 = <<>> /\ clist2 = <<>>)

\* getNtoN starts with pairs left after get1to1 has taken a pair.
C19_Witness ==
    /\ pc = "getNtoN"
    /\ clist1 # <<>>
    /\ out["1to1"] # <<>>

\* C14: when clusterfile.py has exited, its exit code is 0 exactly when it
\* was given three arguments and bucketize returned 0; it is not 0 when the
\* arguments are too few or bucketize returned 1.
C14_ExitCode ==
    pc = "exited" => (exit = 0 <=> (argc = 4 /\ ret = 0))

\* C15: when bucketize has returned 1, none of the six bucket files has been
\* created or written; a bucket file exists only in a call whose arguments
\* passed the checks, whose input files exist and that has not returned 1.
C15_NoPartialOutput ==
    /\ ret = 1 => (created = {} /\ out = NoOutput)
    /\ created # {} =>
           /\ ret # 1
           /\ ArgsValid(args)
           /\ "file1" \in args => file1.exists
           /\ "file2" \in args => file2.exists

\* bucketize returned 1 for a missing second file after it loaded the first.
C15_Witness ==
    /\ pc = "done"
    /\ ret = 1
    /\ run = 1
    /\ cluster_set1.exists
    /\ ~file2.exists

\* C16: when a second call of bucketize with file inputs in the same session
\* has ended, it has returned what the first call returned and has written
\* the bucket files the first call wrote.
C16_SecondCallSame ==
    (run = 2 /\ pc \in {"done", "raised"} /\ {"file1", "file2"} \subseteq args) =>
        /\ pc = "done"
        /\ ret = prev.ret
        /\ created = prev.created
        /\ out = prev.out

\* C13: when bucketize has returned 0, the records of the 0to1 and of the
\* 1to0 bucket are in ascending order of (cluster ID, member ID); and when
\* the run on the same records in another line order has returned 0, each of
\* the six bucket files holds the records of the first run in the same order.
C13_OrderIndependent ==
    /\ Returned0 =>
           \A s \in {"0to1", "1to0"} : \A k \in 1..(Len(out[s]) - 1) :
               LET r == out[s][k]
                   n == out[s][k + 1]
               IN  StrLess(r[1], n[1]) \/ (r[1] = n[1] /\ r[2] < n[2])
    /\ (Returned0 /\ run = 2) => (out = prev.out /\ created = prev.created)

\* The second run read the second file in another line order and has
\* written several records to the 0to1 bucket and a record to a joint bucket.
C13_Witness ==
    /\ Returned0
    /\ run = 2
    /\ file2.lines # Lines(file2.recs)
    /\ Len(out["0to1"]) > 1
    /\ \E s \in {"1to1", "1toN", "Nto1", "NtoN"} : out[s] # <<>>

\* The positions inside the loops of the four bucket functions.
LoopPcs ==
    {"getNto1.while", "getNto1.write", "getNto1.skip", "get1to1.while",
     "get1toN.while", "get1toN.write", "get1toN.skip", "getNtoN.for"}

\* C18: every step that stays in a loop of getNto1, get1to1, get1toN or
\* getNtoN deletes a pair or increases its index, and a run whose inputs are
\* loaded and joined into the lists leads to "return 0" of bucketize.
C18_Terminates ==
    /\ [][(pc \in LoopPcs /\ pc' = pc) =>
              \/ Len(clist1') < Len(clist1)
              \/ loop'.i > loop.i
              \/ loop'.j > loop.j]_vars
    /\ (pc = "getNto1") ~> Returned0

\* The run has returned 0 after the loops of getNto1 and of get1to1 have
\* written and deleted pairs.
C18_Witness ==
    /\ Returned0
    /\ out["Nto1"] # <<>>
    /\ out["1to1"] # <<>>

====
